---- MODULE Spec2Model ----
(***************************************************************************)
(* egpipe (cmd/egpipe/egpipe.go): the batching publisher and the ingestion *)
(* loop of run.                                                            *)
(*                                                                         *)
(* Three goroutines share the publisher: the ingestion loop of run (main), *)
(* the ticker goroutine (started when FlushInterval # 0) and the signal    *)
(* listener.  An event is identified by the number of the input line it    *)
(* was built from.  Time is discrete; the ticker is modelled by the time   *)
(* left until its next firing and the one-slot channel ticker.C.           *)
(***************************************************************************)
EXTENDS Integers, Sequences, FiniteSets, TLC

\* ---------------------------------------------------------------- bounds
MaxLines == 3          \* longest input, in lines
MaxBatch == 2          \* largest --batch-size tried
Interval == 2          \* the non-zero --flush-interval tried, in time units
MaxChars == 5          \* longest eventTime string enumerated, in characters

\* ------------------------------------------------------------- constants
Free == "free"         \* p.mutex is unlocked
Running == "running"   \* exitCode while the process has not exited

\* A line of the input: whitespace only, a line buildEvent accepts, a line
\* buildEvent rejects, a line longer than the scanner's token limit.
LineKinds == {"blank", "good", "bad", "toolong"}

\* Outcome of httpClient.Do in flush: status 200, another status, or a
\* transport error.
Responses == {"200", "500", "neterr"}

VARIABLES
    input,          \* the lines on standard input
    maxQueueSize,   \* cli.BatchSize, publisher.maxQueueSize
    flushInterval,  \* cli.FlushInterval
    pos,            \* number of lines scanner.Scan has consumed
    mainPc,         \* where run's goroutine is
    err,            \* run's err variable; run's result once mainPc = "returned"
    cache,          \* p.cache, the pending batch
    mutex,          \* p.mutex: Free or the flushIfNeeded caller holding it
    tickPc,         \* where the ticker goroutine is
    tickC,          \* number of ticks buffered in ticker.C (capacity 1)
    untilTick,      \* time until the ticker fires next
    age,            \* time since the append that made cache non-empty
    sigPc,          \* where the signal goroutine is
    doneMutex,      \* who holds doneMutex
    done,           \* run's done flag
    requests,       \* the POST requests issued so far, in order
    resets,         \* calls of p.resetTicker since the batch was last empty
    job,            \* the field options and the line given to buildEvent
    built,          \* what buildEvent returned for job
    exitCode        \* Running, or the status the process exited with

cfgVars  == <<input, maxQueueSize, flushInterval>>
mainVars == <<pos, mainPc, err>>
pubVars  == <<cache, mutex, requests, resets>>
tickVars == <<tickPc, tickC>>
timeVars == <<untilTick, age>>
sigVars  == <<sigPc, done, doneMutex>>
buildVars == <<job, built>>
vars == <<input, maxQueueSize, flushInterval, pos, mainPc, err, cache, mutex,
          tickPc, tickC, untilTick, age, sigPc, done, doneMutex, requests,
          resets,
          job, built, exitCode>>

\* ---------------------------------------------------------------- helpers
Min(a, b) == IF a < b THEN a ELSE b

RECURSIVE SeqsUpTo(_, _)
SeqsUpTo(S, n) ==
    IF n = 0 THEN {<<>>}
    ELSE LET shorter == SeqsUpTo(S, n - 1)
         IN  shorter \cup {Append(s, x) : s \in {t \in shorter : Len(t) = n - 1}, x \in S}

\* An input ends at its first over-long line: Scan stops there for good.
Inputs ==
    {s \in SeqsUpTo(LineKinds, MaxLines) :
        \A i \in 1..Len(s) : s[i] = "toolong" => i = Len(s)}

\* scanner.Err(): non-nil after Scan gave up on an over-long line.
scannerErr == pos > 0 /\ input[pos] = "toolong"

\* ------------------------------------------------------------ buildEvent
\* The fields of an event that come from the options, in the order
\* buildEvent resolves them.
fieldOrderDeclared == <<"id", "subject", "eventType", "eventTime", "dataVersion">>

fieldOrder == <<"id", "subject", "dataVersion", "eventTime", "eventType">>

Fields == {fieldOrder[i] : i \in 1..Len(fieldOrder)}

\* An option value: a literal, a "jp:" expression that compiles, a "jp:"
\* expression that jmespath.Compile rejects.
OptKinds == {"literal", "jp", "jpbad"}

\* A string that is looked into is a tuple of one-character strings.
nowString == <<"n", "o", "w">>

\* The string the eventTime field resolves to: "now", an integer, or
\* something strconv.ParseInt rejects.
TimeVals == {nowString, <<"1", "5", "0", "0">>, <<"x">>}

\* What time.Now() reads, in seconds since the epoch.
Clocks == {1608309835}

\* One call of buildEvent: the options, and what the line gives: whether it
\* is valid JSON, the fields whose expression Search fails on, whether the
\* id comes out empty, the eventTime string.
Jobs ==
    [opt : [Fields -> OptKinds], validJSON : BOOLEAN, searchFails : SUBSET Fields,
     idEmpty : BOOLEAN, timeVal : TimeVals, clock : Clocks]

NoJob == "none"
nilErr == [kind |-> "nil", field |-> "none"]

\* A *event is the empty set (nil) or holds one event.
nilEvent == {}

\* built before buildEvent has returned.
NotBuilt ==
    [err |-> [kind |-> "unset", field |-> "none"], ev |-> nilEvent,
     resolved |-> <<>>, parses |-> 0]

\* lineData.unmarshalled: json.Unmarshal when l.iface is nil.  The receiver
\* is a value, so the assignment to l.iface is made on the callee's copy;
\* calls counts the json.Unmarshal calls.
unmarshalled(l) ==
    IF l.iface = "nil"
      THEN IF l.data.validJSON
             THEN [val |-> "json", err |-> "nil", calls |-> 1]
             ELSE [val |-> "nil", err |-> "parse", calls |-> 1]
      ELSE [val |-> l.iface, err |-> "nil", calls |-> 0]

\* The value a field resolves to when nothing fails.
fieldValue(name, j) ==
    IF name = "id" THEN (IF j.idEmpty THEN "" ELSE "v")
    ELSE IF name = "eventTime" THEN j.timeVal
    ELSE "v"

\* cliOptions.getVal: a literal as it is; a "jp:" option compiled, the line
\* unmarshalled, the expression searched.
getVal(name, l) ==
    LET optDef == l.data.opt[name]
    IN  IF optDef = "literal"
          THEN [val |-> fieldValue(name, l.data), err |-> "nil", calls |-> 0]
        ELSE IF optDef = "jpbad"
          THEN [val |-> "", err |-> "compile", calls |-> 0]
        ELSE LET jd == unmarshalled(l)
             IN  IF jd.err # "nil"
                   THEN [val |-> "", err |-> jd.err, calls |-> jd.calls]
                 ELSE IF name \in l.data.searchFails
                   THEN [val |-> "", err |-> "search", calls |-> jd.calls]
                 ELSE [val |-> fieldValue(name, l.data), err |-> "nil",
                       calls |-> jd.calls]

\* ---- strconv.ParseInt(s, 10, 64)
DigitChars == <<"0", "1", "2", "3", "4", "5", "6", "7", "8", "9">>

isDigit(c) == \E d \in 1..10 : DigitChars[d] = c

digitVal(c) == (CHOOSE d \in 1..10 : DigitChars[d] = c) - 1

\* An int64 is held as its sign and its magnitude thousands * 1000 + units:
\* the checker's integers are 32 bits wide.
zeroInt == [neg |-> FALSE, thousands |-> 0, units |-> 0]

RECURSIVE parseDigits(_, _)
parseDigits(s, acc) ==
    IF s = <<>> THEN acc
    ELSE LET u == acc.units * 10 + digitVal(Head(s))
         IN  parseDigits(Tail(s), [acc EXCEPT !.thousands = @ * 10 + u \div 1000,
                                              !.units = u % 1000])

RECURSIVE stripZeros(_)
stripZeros(s) ==
    IF s # <<>> /\ Head(s) = "0" THEN stripZeros(Tail(s)) ELSE s

\* The digits of 1 << 63, the cutoff of a 64-bit signed value.
int64Cutoff ==
    <<"9", "2", "2", "3", "3", "7", "2", "0", "3", "6",
      "8", "5", "4", "7", "7", "5", "8", "0", "8">>

\* Digit strings without leading zeros: a is a smaller number than b.
RECURSIVE digitsLess(_, _)
digitsLess(a, b) ==
    IF Len(a) # Len(b) THEN Len(a) < Len(b)
    ELSE IF a = <<>> THEN FALSE
    ELSE IF Head(a) # Head(b) THEN digitVal(Head(a)) < digitVal(Head(b))
    ELSE digitsLess(Tail(a), Tail(b))

\* ParseInt: an optional sign, then one or more decimal digits; a value
\* outside int64 is a range error.
ParseInt(s) ==
    LET signed == s # <<>> /\ Head(s) \in {"+", "-"}
        neg    == s # <<>> /\ Head(s) = "-"
        body   == IF signed THEN Tail(s) ELSE s
        mag    == stripZeros(body)
    IN  IF body = <<>> \/ \E i \in 1..Len(body) : ~isDigit(body[i])
          THEN [val |-> zeroInt, err |-> "syntax"]
        ELSE IF ~(digitsLess(mag, int64Cutoff) \/ (neg /\ mag = int64Cutoff))
          THEN [val |-> zeroInt, err |-> "range"]
        ELSE [val |-> [parseDigits(mag, zeroInt) EXCEPT !.neg = neg],
              err |-> "nil"]

\* ---- Go's integer / and %: the quotient is truncated toward zero and the
\* remainder has the sign of the dividend.
quo(a, b) == IF a >= 0 THEN a \div b ELSE -((-a) \div b)

\* iVal / 1000 and iVal % 1000.
secsOf(iVal) == IF iVal.neg THEN -iVal.thousands ELSE iVal.thousands

msOfFloor(iVal) == iVal.units

msOf(iVal) == IF iVal.neg THEN -iVal.units ELSE iVal.units

\* ---- time.Unix(sec, nsec): nsec outside [0, 999999999] is carried into
\* the seconds.
Billion == 1000000000
Million == 1000000

Unix(sec, nsec) ==
    IF nsec < 0 \/ nsec >= Billion
      THEN LET n   == quo(nsec, Billion)
               s1  == sec + n
               ns1 == nsec - n * Billion
           IN  IF ns1 < 0 THEN [sec |-> s1 - 1, nsec |-> ns1 + Billion]
                          ELSE [sec |-> s1, nsec |-> ns1]
      ELSE [sec |-> sec, nsec |-> nsec]

\* ---- Time.UTC().Format(time.RFC3339Nano)
\* The proleptic Gregorian date of the day z days after 1970-01-01, found
\* step by step: the 400-year era and the day in it, the year in the
\* era, the day in the year counted from 1 March, the month counted from
\* March.
dateOfMonth(era, yoe, doy, mp) ==
    [year  |-> yoe + era * 400 + (IF mp < 10 THEN 0 ELSE 1),
     month |-> IF mp < 10 THEN mp + 3 ELSE mp - 9,
     day   |-> doy - (153 * mp + 2) \div 5 + 1]

dateOfYearDay(era, yoe, doy) == dateOfMonth(era, yoe, doy, (5 * doy + 2) \div 153)

dateOfYear(era, doe, yoe) ==
    dateOfYearDay(era, yoe, doe - (365 * yoe + yoe \div 4 - yoe \div 100))

dateOfEraDay(era, doe) ==
    dateOfYear(era, doe,
        (doe - doe \div 1460 + doe \div 36524 - doe \div 146096) \div 365)

civil(z) == dateOfEraDay((z + 719468) \div 146097, (z + 719468) % 146097)

\* The fraction ".999999999" of the layout: nine digits, trailing zeros
\* dropped, nothing for a whole second.
RECURSIVE fracDigits(_, _)
fracDigits(nsec, width) ==
    IF nsec = 0 THEN <<>>
    ELSE <<DigitChars[nsec \div width + 1]>> \o fracDigits(nsec % width, width \div 10)

Format(t) ==
    LET date == civil(t.sec \div 86400)
        tod  == t.sec % 86400
    IN  [year |-> date.year, month |-> date.month, day |-> date.day,
         hour |-> tod \div 3600, minute |-> (tod % 3600) \div 60,
         second |-> tod % 60, frac |-> fracDigits(t.nsec, Billion \div 10)]

\* cliOptions.eventTime: "now", or epoch milliseconds through ParseInt.
eventTime(l) ==
    LET got == getVal("eventTime", l)
    IN  IF got.err # "nil" THEN got
        ELSE IF got.val = nowString
          THEN [got EXCEPT !.val = Format(Unix(l.data.clock, 0))]
        ELSE LET parsed == ParseInt(got.val)
                 secs   == secsOf(parsed.val)
                 ms     == msOf(parsed.val)
                 ns     == ms * Million
             IN  IF parsed.err # "nil"
                   THEN [got EXCEPT !.val = "", !.err = parsed.err]
                   ELSE [got EXCEPT !.val = Format(Unix(secs, ns))]

\* One field of buildEvent; an empty id is replaced by a new uuid.
resolve(name, l) ==
    LET got == IF name = "eventTime" THEN eventTime(l) ELSE getVal(name, l)
    IN  IF name = "id" /\ got.err = "nil" /\ got.val = ""
          THEN [got EXCEPT !.val = "uuid"]
          ELSE got

\* buildEvent from its i-th field on: ld is handed to every getVal by
\* value, the first error returns.
RECURSIVE buildFrom(_, _, _)
buildFrom(i, ld, acc) ==
    IF i > Len(fieldOrder)
      THEN [acc EXCEPT !.ev = {[f \in Fields |-> acc.vals[f]]}]
      ELSE LET name == fieldOrder[i]
               got == resolve(name, ld)
               nxt == [acc EXCEPT !.resolved = Append(@, name),
                                  !.parses = @ + got.calls]
           IN  IF got.err # "nil"
                 THEN [nxt EXCEPT !.err = [kind |-> got.err, field |-> name]]
                 ELSE buildFrom(i + 1, ld, [nxt EXCEPT !.vals[name] = got.val])

\* buildEvent: the error, the event (nilEvent on an error), the fields
\* resolved in order and the number of json.Unmarshal calls.
buildEvent(j) ==
    LET out == buildFrom(1, [data |-> j, iface |-> "nil"],
                   [err |-> nilErr, ev |-> nilEvent, resolved |-> <<>>,
                    parses |-> 0, vals |-> [f \in Fields |-> ""]])
    IN  [err |-> out.err, ev |-> out.ev, resolved |-> out.resolved,
         parses |-> out.parses]

\* ------------------------------------------------------------------- Init
Init ==
    /\ input \in Inputs
    /\ maxQueueSize \in 0..MaxBatch
    /\ flushInterval \in {0, Interval}
    /\ pos = 0
    /\ mainPc = "scan"
    /\ err = "nil"
    /\ cache = <<>>
    /\ mutex = Free
    /\ tickPc = "wait"
    /\ tickC = 0
    /\ untilTick = flushInterval
    /\ age = 0
    /\ sigPc = "wait"
    /\ done = FALSE
    /\ doneMutex = Free
    /\ requests = <<>>
    /\ resets = 0
    /\ job = NoJob
    /\ built = NotBuilt
    /\ exitCode = Running

\* ------------------------------------------------------------- publisher
\* resetTicker: func(){} when FlushInterval = 0, ticker.Reset(interval)
\* otherwise.  Gives the time until the next firing.
resetTicker == IF flushInterval = 0 THEN untilTick ELSE flushInterval

\* firstOfBatch holding for every append.
firstOfBatchAlways(n) == TRUE

\* `if len(p.cache) == 1`, on the length after the append.
firstOfBatch(n) == n = 1

\* addEvent without p.mutex.Lock(): the append does not wait for a flush.
addEventNoLock(ev) ==
    /\ cache' = Append(cache, ev)
    /\ IF firstOfBatch(Len(cache'))
         THEN untilTick' = resetTicker /\ age' = 0 /\ resets' = resets + 1
         ELSE UNCHANGED <<untilTick, age, resets>>
    /\ UNCHANGED <<mutex, requests>>

\* addEvent, the locked part: append, reset the ticker when the batch has
\* just become non-empty.
addEvent(ev) ==
    /\ mutex = Free
    /\ cache' = Append(cache, ev)
    /\ IF firstOfBatch(Len(cache'))
         THEN untilTick' = resetTicker /\ age' = 0 /\ resets' = resets + 1
         ELSE UNCHANGED <<untilTick, age, resets>>
    /\ UNCHANGED <<mutex, requests>>

\* noFlush with the comparison off by one.
noFlushOffByOne(threshold) == Len(cache) = 0 \/ Len(cache) <= threshold

\* noFlush taking threshold 0 to mean that size never triggers a flush.
noFlushZeroUnbounded(threshold) ==
    Len(cache) = 0 \/ Len(cache) < threshold \/ threshold = 0

\* noFlush without the test for an empty batch.
noFlushNoEmptyCheck(threshold) == Len(cache) < threshold

\* flushIfNeeded's early return.
noFlush(threshold) == Len(cache) = 0 \/ Len(cache) < threshold

\* flushBody encoding the first pending event only.
flushBodyFirst == SubSeq(cache, 1, 1)

\* The body flush encodes into the request.
flushBody == cache

\* flush up to httpClient.Do: one POST carrying the batch.
flush(who) ==
    requests' = Append(requests,
        [body |-> flushBody, src |-> who, status |-> "inflight"])

\* flushIfNeeded from Lock to the request being on the wire (or to the
\* early return, which unlocks at once).  sent tells which.
flushIfNeededBegin(who, threshold, sent) ==
    /\ mutex = Free
    /\ IF noFlush(threshold)
         THEN /\ ~sent
              /\ UNCHANGED <<mutex, requests>>
         ELSE /\ sent
              /\ mutex' = who
              /\ flush(who)
    /\ UNCHANGED <<cache, resets>>

\* cacheAfter without the truncation to p.cache[:0].
cacheAfterKeep(resp) == cache

\* What flushIfNeeded leaves in p.cache after flush returned.
cacheAfter(resp) == IF resp = "200" THEN <<>> ELSE cache

\* deferredUnlock with the Unlock placed after the error return instead
\* of deferred.
deferredUnlockOnSuccess(who, resp) == IF resp = "200" THEN Free ELSE who

\* `defer p.mutex.Unlock()`: the holder of the mutex once flushIfNeeded
\* has returned.
deferredUnlock(who, resp) == Free

\* flushIfNeeded from the response to the deferred Unlock.
flushIfNeededEnd(who, resp) ==
    /\ mutex = who
    /\ requests' = [requests EXCEPT ![Len(requests)].status = resp]
    /\ cache' = cacheAfter(resp)
    /\ resets' = IF cache' = <<>> THEN 0 ELSE resets
    /\ mutex' = deferredUnlock(who, resp)

\* ------------------------------------------------------- ingestion loop
\* isBlank with the skip of blank lines left out: every line reaches
\* buildEvent.
isBlankNoSkip(line) == FALSE

\* bytes.TrimSpace(b) leaves nothing.
isBlank(line) == line = "blank"

\* buildEvent returns an event and no error.
buildOk(line) == line = "good"

\* One pass of `for scanner.Scan()` up to the call of addEvent: standard
\* input delivers its next line, or its end, and Scan returns.  Until then
\* Scan blocks.
ScanLine ==
    /\ exitCode = Running
    /\ mainPc = "scan"
    /\ IF pos = Len(input)
         THEN /\ mainPc' = "finalFlush"
              /\ UNCHANGED <<pos, err>>
         ELSE /\ pos' = pos + 1
              /\ IF input[pos + 1] = "toolong"
                   THEN mainPc' = "finalFlush" /\ UNCHANGED err
                   ELSE IF isBlank(input[pos + 1])
                   THEN mainPc' = "scan" /\ UNCHANGED err
                   ELSE IF buildOk(input[pos + 1])
                   THEN mainPc' = "addEvent" /\ UNCHANGED err
                   ELSE mainPc' = "returned" /\ err' = "build"
    /\ UNCHANGED <<cfgVars, buildVars, pubVars, tickVars, timeVars, sigVars, exitCode>>

AddEvent ==
    /\ exitCode = Running
    /\ mainPc = "addEvent"
    /\ addEvent(pos)
    /\ mainPc' = "addFlush"
    /\ UNCHANGED <<cfgVars, buildVars, pos, err, tickVars, sigVars, exitCode>>

AddFlushBegin ==
    /\ exitCode = Running
    /\ mainPc = "addFlush"
    /\ \E sent \in BOOLEAN :
          /\ flushIfNeededBegin("add", maxQueueSize, sent)
          /\ mainPc' = IF sent THEN "addInflight" ELSE "afterAdd"
    /\ UNCHANGED <<cfgVars, buildVars, pos, err, tickVars, timeVars, sigVars, exitCode>>

AddFlushEnd ==
    /\ exitCode = Running
    /\ mainPc = "addInflight"
    /\ \E resp \in Responses :
          /\ flushIfNeededEnd("add", resp)
          /\ err' = IF resp = "200" THEN "nil" ELSE "delivery"
    /\ mainPc' = "afterAdd"
    /\ UNCHANGED <<cfgVars, buildVars, pos, tickVars, timeVars, sigVars, exitCode>>

\* The values an unsynchronised read of done can give.
readDone == IF done THEN {TRUE, FALSE} ELSE {FALSE}

\* afterAddNext without `if err != nil { return err }`.
afterAddIgnoreErr(e, d) == IF d THEN "finalFlush" ELSE "scan"

\* Where run goes after addEvent returned e and done was read as d.
afterAddNext(e, d) ==
    IF e # "nil" THEN "returned" ELSE IF d THEN "finalFlush" ELSE "scan"

\* After addEvent returned: `if err != nil { return err }`, `if done { break }`.
AfterAdd ==
    /\ exitCode = Running
    /\ mainPc = "afterAdd"
    /\ \E d \in readDone : mainPc' = afterAddNext(err, d)
    /\ UNCHANGED <<cfgVars, buildVars, pos, err, pubVars, tickVars, timeVars, sigVars, exitCode>>

\* finalThreshold had the final flush used the size threshold.
finalThresholdBatch == maxQueueSize

\* The threshold of the flush after the loop.
finalThreshold == 0

\* What run returns after the final flush came back without an error.
runResult == IF scannerErr THEN "scan" ELSE "nil"

FinalFlushBegin ==
    /\ exitCode = Running
    /\ mainPc = "finalFlush"
    /\ \E sent \in BOOLEAN :
          /\ flushIfNeededBegin("final", finalThreshold, sent)
          /\ IF sent
               THEN mainPc' = "finalInflight" /\ UNCHANGED err
               ELSE mainPc' = "returned" /\ err' = runResult
    /\ UNCHANGED <<cfgVars, buildVars, pos, tickVars, timeVars, sigVars, exitCode>>

FinalFlushEnd ==
    /\ exitCode = Running
    /\ mainPc = "finalInflight"
    /\ \E resp \in Responses :
          /\ flushIfNeededEnd("final", resp)
          /\ err' = IF resp = "200" THEN runResult ELSE "delivery"
    /\ mainPc' = "returned"
    /\ UNCHANGED <<cfgVars, buildVars, pos, tickVars, timeVars, sigVars, exitCode>>

\* main after run returned: k.FatalIfErrorf(err), then the end of main.
MainExit ==
    /\ exitCode = Running
    /\ mainPc = "returned"
    /\ exitCode' = IF err = "nil" THEN "0" ELSE "1"
    /\ UNCHANGED <<cfgVars, buildVars, mainVars, pubVars, tickVars, timeVars, sigVars>>

\* ---------------------------------------------------------------- ticker
\* One unit of time passes; the ticker's deadline cannot be overrun.
Tock ==
    /\ exitCode = Running
    /\ flushInterval # 0
    /\ untilTick > 0
    /\ untilTick' = untilTick - 1
    /\ age' = IF cache = <<>> THEN age ELSE Min(age + 1, Interval)
    /\ UNCHANGED <<cfgVars, buildVars, mainVars, pubVars, tickVars, sigVars, exitCode>>

\* The threshold of the ticker goroutine's flush.
tickThreshold == 0

\* The ticker fires: a non-blocking send on ticker.C, the next firing one
\* interval later.
TickerFire ==
    /\ exitCode = Running
    /\ flushInterval # 0
    /\ untilTick = 0
    /\ tickC' = 1
    /\ untilTick' = flushInterval
    /\ UNCHANGED <<cfgVars, buildVars, mainVars, pubVars, tickPc, age, sigVars, exitCode>>

\* `for range ticker.C`: the goroutine takes a tick.
TickerRecv ==
    /\ exitCode = Running
    /\ tickPc = "wait"
    /\ tickC = 1
    /\ tickC' = 0
    /\ tickPc' = "flush"
    /\ UNCHANGED <<cfgVars, buildVars, mainVars, pubVars, timeVars, sigVars, exitCode>>

TickFlushBegin ==
    /\ exitCode = Running
    /\ tickPc = "flush"
    /\ \E sent \in BOOLEAN :
          /\ flushIfNeededBegin("tick", tickThreshold, sent)
          /\ tickPc' = IF sent THEN "inflight" ELSE "wait"
    /\ UNCHANGED <<cfgVars, buildVars, mainVars, tickC, timeVars, sigVars, exitCode>>

\* tickAfter with err2 dropped: the goroutine goes on to the next tick.
tickAfterIgnoreErr(resp) == "wait"

\* `if err2 != nil { os.Exit(1) }`: where the goroutine goes after its flush.
tickAfter(resp) == IF resp = "200" THEN "wait" ELSE "exit"

TickFlushEnd ==
    /\ exitCode = Running
    /\ tickPc = "inflight"
    /\ \E resp \in Responses :
          /\ flushIfNeededEnd("tick", resp)
          /\ tickPc' = tickAfter(resp)
    /\ UNCHANGED <<cfgVars, buildVars, mainVars, tickC, timeVars, sigVars, exitCode>>

\* `if err2 != nil { os.Exit(1) }`
TickerExit ==
    /\ exitCode = Running
    /\ tickPc = "exit"
    /\ exitCode' = "1"
    /\ UNCHANGED <<cfgVars, buildVars, mainVars, pubVars, tickVars, timeVars, sigVars>>

\* ------------------------------------------------------- signal listener
\* `<-c`: an interrupt or SIGTERM reaches the listener.
SignalRecv ==
    /\ exitCode = Running
    /\ sigPc = "wait"
    /\ sigPc' = "recv"
    /\ UNCHANGED <<cfgVars, buildVars, mainVars, pubVars, tickVars, timeVars, done,
                   doneMutex, exitCode>>

\* doneMutex.Lock()
LockDone ==
    /\ exitCode = Running
    /\ sigPc = "recv"
    /\ doneMutex = Free
    /\ doneMutex' = "signal"
    /\ sigPc' = "locked"
    /\ UNCHANGED <<cfgVars, buildVars, mainVars, pubVars, tickVars, timeVars, done, exitCode>>

\* done = true; doneMutex.Unlock()
SetDone ==
    /\ exitCode = Running
    /\ sigPc = "locked"
    /\ done' = TRUE
    /\ doneMutex' = Free
    /\ sigPc' = "end"
    /\ UNCHANGED <<cfgVars, buildVars, mainVars, pubVars, tickVars, timeVars, exitCode>>

\* ------------------------------------------------------------------ Next
Next ==
    \/ ScanLine
    \/ AddEvent
    \/ AddFlushBegin
    \/ AddFlushEnd
    \/ AfterAdd
    \/ FinalFlushBegin
    \/ FinalFlushEnd
    \/ MainExit
    \/ Tock
    \/ TickerFire
    \/ TickerRecv
    \/ TickFlushBegin
    \/ TickFlushEnd
    \/ TickerExit
    \/ SignalRecv
    \/ LockDone
    \/ SetDone

Spec == Init /\ [][Next]_vars

\* ------------------------------------------- one line through buildEvent
\* run on a one-line input, the line and the options drawn from Jobs.  The
\* line is "good" for the loop exactly if buildEvent returns no error.
oneLineStart ==
    /\ built = NotBuilt
    /\ input = <<IF buildEvent(job).err = nilErr THEN "good" ELSE "bad">>
    /\ maxQueueSize = MaxBatch
    /\ flushInterval = 0
    /\ pos = 0
    /\ mainPc = "scan"
    /\ err = "nil"
    /\ cache = <<>>
    /\ mutex = Free
    /\ tickPc = "wait"
    /\ tickC = 0
    /\ untilTick = 0
    /\ age = 0
    /\ sigPc = "wait"
    /\ done = FALSE
    /\ doneMutex = Free
    /\ requests = <<>>
    /\ resets = 0
    /\ exitCode = Running

InitBuild ==
    /\ job \in Jobs
    /\ oneLineStart

\* `ev, err = buildEvent(cli, scanner.Bytes()); if err != nil { return err }`
BuildLine ==
    /\ exitCode = Running
    /\ mainPc = "scan"
    /\ pos < Len(input)
    /\ built = NotBuilt
    /\ built' = buildEvent(job)
    /\ pos' = pos + 1
    /\ IF built'.err = nilErr
         THEN mainPc' = "addEvent" /\ UNCHANGED err
         ELSE mainPc' = "returned" /\ err' = "build"
    /\ UNCHANGED <<cfgVars, job, pubVars, tickVars, timeVars, sigVars, exitCode>>

NextBuild ==
    \/ BuildLine
    \/ AddEvent

SpecBuild == InitBuild /\ [][NextBuild]_vars

\* ---------------------------------------------- one line through eventTime
\* The characters and the strings tried as the resolved eventTime.
TimeChars == {"-", "+", "0", "1", "7", "x"}

TimeStrings == UNION {[1..n -> TimeChars] : n \in 0..MaxChars}

\* 1608309835000 (the test's line), the same with a millisecond part and
\* before the epoch, 29 February of 2020 and of 2000, one past either end
\* of int64.
TimeExamples ==
    { <<"1","6","0","8","3","0","9","8","3","5","0","0","0">>,
      <<"1","6","0","8","3","0","9","8","3","5","1","2","3">>,
      <<"-","1","6","0","8","3","0","9","8","3","5","1","2","3">>,
      <<"1","5","8","2","9","3","4","4","0","0","0","0","0">>,
      <<"9","5","1","7","8","2","4","0","0","0","0","0">>,
      <<"9","2","2","3","3","7","2","0","3","6","8","5","4","7","7","5","8","0","8">>,
      <<"-","9","2","2","3","3","7","2","0","3","6","8","5","4","7","7","5","8","0","9">> }

\* --event-time given as the string itself or as a query into the line.
TimeOpts ==
    {[f \in Fields |-> IF f = "eventTime" THEN k ELSE "literal"] :
        k \in {"literal", "jp"}}

JobsTime ==
    [opt : TimeOpts, validJSON : {TRUE}, searchFails : {{}}, idEmpty : {FALSE},
     timeVal : TimeStrings \cup TimeExamples, clock : Clocks]

InitTime ==
    /\ job \in JobsTime
    /\ oneLineStart

SpecTime == InitTime /\ [][NextBuild]_vars

\* What the scheduling guarantees: every goroutine that can take a step
\* eventually takes it, a goroutine waiting for p.mutex eventually gets it
\* (sync.Mutex hands the lock to a starving waiter), every POST is answered,
\* time passes.  Nothing makes standard input deliver a line or its end
\* (ScanLine), nor a signal arrive (SignalRecv).
Fairness ==
    /\ SF_vars(AddEvent)
    /\ SF_vars(AddFlushBegin)
    /\ WF_vars(AddFlushEnd)
    /\ WF_vars(AfterAdd)
    /\ SF_vars(FinalFlushBegin)
    /\ WF_vars(FinalFlushEnd)
    /\ WF_vars(MainExit)
    /\ WF_vars(Tock)
    /\ WF_vars(TickerFire)
    /\ WF_vars(TickerRecv)
    /\ SF_vars(TickFlushBegin)
    /\ WF_vars(TickFlushEnd)
    /\ WF_vars(TickerExit)
    /\ WF_vars(LockDone)
    /\ WF_vars(SetDone)

SpecLive == Init /\ [][Next]_vars /\ Fairness

\* ------------------------------------------------- contention for the lock
\* run with the ticker started and every line accepted by buildEvent, so
\* that each line reaches addEvent while ticks arrive.
InitLock ==
    /\ Init
    /\ flushInterval = Interval
    /\ \A i \in 1..Len(input) : buildOk(input[i])

SpecLock == InitLock /\ [][Next]_vars /\ Fairness

TypeOK ==
    /\ input \in Inputs
    /\ maxQueueSize \in 0..MaxBatch
    /\ flushInterval \in {0, Interval}
    /\ pos \in 0..Len(input)
    /\ mainPc \in {"scan", "addEvent", "addFlush", "addInflight", "afterAdd",
                   "finalFlush", "finalInflight", "returned"}
    /\ err \in {"nil", "build", "delivery", "scan"}
    /\ mutex \in {Free, "add", "final", "tick"}
    /\ tickPc \in {"wait", "flush", "inflight", "exit"}
    /\ tickC \in 0..1
    /\ untilTick \in 0..Interval
    /\ age \in 0..Interval
    /\ sigPc \in {"wait", "recv", "locked", "end"}
    /\ doneMutex \in {Free, "signal"}
    /\ done \in BOOLEAN
    /\ exitCode \in {Running, "0", "1"}
    /\ resets \in 0..MaxLines
    /\ \A i \in 1..Len(cache) : cache[i] \in 1..pos
    /\ \A i \in 1..Len(requests) :
          /\ requests[i].src \in {"add", "final", "tick"}
          /\ requests[i].status \in Responses \cup {"inflight"}

\* ------------------------------------------------ vocabulary of the claims
\* The numbers of the lines among the first n that are events (neither
\* blank nor rejected nor over-long), in input order.
RECURSIVE eventLines(_)
eventLines(n) ==
    IF n = 0 THEN <<>>
    ELSE IF input[n] = "good" THEN Append(eventLines(n - 1), n)
    ELSE eventLines(n - 1)

\* The events appended to p.cache so far, in order.
added == eventLines(IF mainPc = "addEvent" THEN pos - 1 ELSE pos)

\* The number of addEvent calls that have returned.
addCalls ==
    IF mainPc \in {"addFlush", "addInflight"} THEN Len(added) - 1 ELSE Len(added)

\* The bodies of the successful requests among the first n, concatenated.
RECURSIVE okBodies(_)
okBodies(n) ==
    IF n = 0 THEN <<>>
    ELSE IF requests[n].status = "200" THEN okBodies(n - 1) \o requests[n].body
    ELSE okBodies(n - 1)

\* The bodies of the add-path requests among the first n, concatenated.
RECURSIVE addBodies(_)
addBodies(n) ==
    IF n = 0 THEN <<>>
    ELSE IF requests[n].src = "add" THEN addBodies(n - 1) \o requests[n].body
    ELSE addBodies(n - 1)

fromAdd(r) == r.src = "add"

reqIdx == 1..Len(requests)
inBody(e, r) == \E j \in 1..Len(r.body) : r.body[j] = e
allSucceeded == \A i \in reqIdx : requests[i].status = "200"

\* ------------------------------------------------------------------ C1
\* C1: for maxBatchSize = k >= 1, whenever addEvent has returned to run
\* (with or without an error) the pending batch holds at most k events.
C1_PendingBounded ==
    (maxQueueSize >= 1 /\ mainPc = "afterAdd") => Len(cache) <= maxQueueSize

\* addEvent returned a delivery error with a full batch, the ticker running.
C1_Witness ==
    /\ maxQueueSize = 2 /\ flushInterval # 0
    /\ mainPc = "afterAdd" /\ err = "delivery"
    /\ Len(cache) = 2

\* ------------------------------------------------------------------ C2
\* C2: with the timer disabled and every delivery succeeding, n returned
\* addEvent calls with maxBatchSize = k >= 1 have caused exactly n div k
\* add-path requests, each of exactly k events, carrying the first
\* k * (n div k) added events in the order they were added.
C2_AddPathBatches ==
    (flushInterval = 0 /\ maxQueueSize >= 1 /\ allSucceeded) =>
        LET k == maxQueueSize
            n == addCalls
        IN  /\ Cardinality({i \in reqIdx : fromAdd(requests[i])}) = n \div k
            /\ \A i \in reqIdx : fromAdd(requests[i]) => Len(requests[i].body) = k
            /\ addBodies(Len(requests)) = SubSeq(added, 1, k * (n \div k))

\* Three adds with k = 2: one full batch sent, one event left pending.
C2_Witness ==
    /\ flushInterval = 0 /\ maxQueueSize = 2 /\ allSucceeded
    /\ addCalls = 3
    /\ Len(requests) = 1 /\ requests[1].src = "add"
    /\ Len(cache) = 1

\* ------------------------------------------------------------------ C3
\* C3: flushIfNeeded(0) from a timer tick or as the final flush, with a
\* non-empty pending batch, sends the whole batch as exactly one request
\* whatever its size, and on success leaves the batch empty.
C3_FlushZeroSendsAll ==
    [][ /\ ( /\ \/ (tickPc = "flush" /\ tickPc' # "flush")
                \/ (mainPc = "finalFlush" /\ mainPc' # "finalFlush")
             /\ cache # <<>> )
          => /\ Len(requests') = Len(requests) + 1
             /\ requests'[Len(requests')].body = cache
             /\ SubSeq(requests', 1, Len(requests)) = requests
        /\ ( /\ mutex \in {"tick", "final"} /\ mutex' = Free
             /\ requests'[Len(requests')].status = "200" )
          => /\ cache' = <<>>
             /\ Len(requests') = Len(requests) ]_vars

\* A tick delivered a batch smaller than the threshold and emptied pending.
C3_Witness ==
    /\ maxQueueSize = 2
    /\ Len(requests) > 0
    /\ LET r == requests[Len(requests)]
       IN  r.src = "tick" /\ r.status = "200" /\ Len(r.body) = 1
    /\ cache = <<>>

\* ------------------------------------------------------------------ C4
\* C4: when run returns without error, the successful requests, in send
\* order, carry exactly the events of the lines read, each once and in
\* input order, and the pending batch is empty.
C4_RunDrains ==
    (mainPc = "returned" /\ err = "nil") =>
        /\ cache = <<>>
        /\ okBodies(Len(requests)) = added
        /\ added = eventLines(pos)

\* run returned nil after a termination request cut the input short, with
\* a tick delivery and a final-flush delivery behind it.
C4_Witness ==
    /\ mainPc = "returned" /\ err = "nil"
    /\ done /\ pos < Len(input)
    /\ \E i \in reqIdx : requests[i].src = "tick" /\ requests[i].status = "200"
    /\ \E i \in reqIdx : requests[i].src = "final" /\ requests[i].status = "200"

\* ------------------------------------------------------------------ C5
\* C5: when a delivery fails, the pending batch no longer contains the
\* events of the failed request once flushIfNeeded has returned.
C5_FailedBatchDiscarded ==
    [][ ( /\ mutex # Free /\ mutex' = Free
          /\ requests'[Len(requests')].status # "200" )
        => \A j \in 1..Len(cache') : ~inBody(cache'[j], requests'[Len(requests')]) ]_vars

\* ------------------------------------------------------------------ C6
\* C6: no event is ever included in more than one delivery request.
C6_SingleAttempt ==
    \A i, j \in reqIdx :
        i < j => \A a \in 1..Len(requests[i].body) : ~inBody(requests[i].body[a], requests[j])

\* ------------------------------------------------------------------ C7
\* C7 as stated: with maxBatchSize = 0 addEvent never triggers a delivery.
C7_AddNeverDelivers ==
    maxQueueSize = 0 => \A i \in reqIdx : requests[i].src # "add"

\* C7 as amended: with maxBatchSize = 0 there is no size threshold to wait
\* for; every addEvent flushes what is pending, so when addEvent returns
\* without error pending is empty and the event it appended has been
\* carried by a successful request.
C7_AddFlushesAtOnce ==
    (maxQueueSize = 0 /\ mainPc = "afterAdd" /\ err = "nil") =>
        /\ cache = <<>>
        /\ \E i \in reqIdx : requests[i].status = "200" /\ inBody(pos, requests[i])

\* addEvent returned nil with batch size 0 after its own flush delivered.
C7_Witness ==
    /\ maxQueueSize = 0 /\ mainPc = "afterAdd" /\ err = "nil"
    /\ Len(requests) > 0
    /\ requests[Len(requests)].src = "add"
    /\ requests[Len(requests)].body = <<pos>>

\* ------------------------------------------------------------------ C8
\* C8: with batch size 0 and flush interval 0, a run that reads the whole
\* of an input of well-formed and blank lines, every delivery answered
\* 200, returns no error and has sent exactly one request per non-blank
\* line, each carrying that line's event alone, in input order.
C8_OneRequestPerLine ==
    ( /\ maxQueueSize = 0 /\ flushInterval = 0
      /\ \A i \in 1..Len(input) : input[i] \in {"good", "blank"}
      /\ \A i \in reqIdx : requests[i].status # "500" /\ requests[i].status # "neterr"
      /\ mainPc = "returned" /\ pos = Len(input) ) =>
        /\ err = "nil"
        /\ Len(requests) = Len(eventLines(Len(input)))
        /\ \A i \in reqIdx :
              /\ requests[i].body = <<eventLines(Len(input))[i]>>
              /\ requests[i].status = "200"

\* Two well-formed lines with a blank line between them: two requests.
C8_Witness ==
    /\ maxQueueSize = 0 /\ flushInterval = 0
    /\ input = <<"good", "blank", "good">>
    /\ mainPc = "returned" /\ err = "nil"
    /\ Len(requests) = 2
    /\ ~done

\* ------------------------------------------------------------------ C9
\* C9: with flush interval 0 and batch size k >= 1, every delivery request
\* carries exactly k events.
C9_NoPartialBatch ==
    (flushInterval = 0 /\ maxQueueSize >= 1) =>
        \A i \in reqIdx : Len(requests[i].body) = maxQueueSize

\* ------------------------------------------------------------------ C10
\* C10: a timer-triggered delivery never starts less than one full
\* flushInterval after the append that made the pending batch non-empty.
C10_FullIntervalBeforeTickFlush ==
    [][ (tickPc = "flush" /\ tickPc' = "inflight") => age >= flushInterval ]_vars

\* ------------------------------------------------------------------ C11
lastFailed(reqs) == Len(reqs) > 0 /\ reqs[Len(reqs)].status \in {"500", "neterr"}

C12_AddFailureStopsLoop ==
    [][ (err = "delivery" /\ mainPc \in {"afterAdd", "returned"})
        => /\ mainPc' \in {mainPc, "returned"}
           /\ err' = "delivery"
           /\ pos' = pos
           /\ Len(cache') <= Len(cache) ]_vars

\* run returned the delivery error of a failed add with input left unread.
C12_Witness ==
    /\ mainPc = "returned" /\ err = "delivery"
    /\ pos < Len(input) /\ input[pos + 1] = "good"
    /\ requests[Len(requests)].src = "add" /\ requests[Len(requests)].status = "500"

\* ------------------------------------------------------------------ C13
\* C13: once a termination request has been received the loop reads no
\* further input line.
C13_NoReadAfterTermination ==
    [][ sigPc # "wait" => pos' = pos ]_vars

\* ------------------------------------------------------------------ C14
\* C14: after a termination request is received the ingestion loop
\* eventually ends and the final flush is performed (or the process has
\* exited), whether or not standard input delivers anything more.
C14_TerminationReachesFinalFlush ==
    (sigPc # "wait") ~> (mainPc \in {"finalInflight", "returned"} \/ exitCode # Running)

\* ------------------------------------------------------------------ C15
inFlight == {i \in reqIdx : requests[i].status = "inflight"}

\* C15: at most one delivery is in flight, it is in flight exactly while
\* its caller holds the lock, and for as long as it is in flight the
\* pending batch is the batch the request carries: nothing is appended
\* meanwhile, so a successful delivery clears exactly what was sent.
C15_FlushesExclusive ==
    /\ Cardinality(inFlight) <= 1
    /\ mutex = Free => inFlight = {}
    /\ mutex # Free =>
          /\ inFlight = {Len(requests)}
          /\ requests[Len(requests)].src = mutex
          /\ requests[Len(requests)].body = cache

\* A tick delivery is in flight while run is about to append an event and
\* the next tick already sits in ticker.C: the append has to wait.
C15_Witness ==
    /\ mutex = "tick" /\ mainPc = "addEvent"
    /\ Len(cache) = 1 /\ tickC = 1

\* ------------------------------------------------------------------ C16
\* C16: every delivery request carries at least one event, whatever the
\* threshold and the caller.
C16_NoEmptyRequest ==
    \A i \in reqIdx : Len(requests[i].body) >= 1

\* The final flushIfNeeded(0) found the batch empty, a tick having
\* delivered everything, and sent nothing.
C16_Witness ==
    /\ mainPc = "returned" /\ err = "nil" /\ cache = <<>>
    /\ Len(requests) = 1 /\ requests[1].src = "tick" /\ requests[1].status = "200"
    /\ Len(added) = 1

\* ------------------------------------------------------------------ C17
\* C17: an append restarts the ticker's countdown exactly when it takes
\* the pending batch from empty to one event, and no other append does;
\* so while a batch is pending the ticker has been reset exactly once
\* for it.
C17_ResetOncePerBatch ==
    /\ [][ Len(cache') = Len(cache) + 1 =>
             IF Len(cache) = 0
               THEN /\ resets' = resets + 1
                    /\ flushInterval # 0 => untilTick' = flushInterval
               ELSE /\ resets' = resets
                    /\ untilTick' = untilTick ]_vars
    /\ [](cache # <<>> => resets = 1)

\* A second event was appended and the countdown went on from where it was.
C17_Witness ==
    /\ Len(cache) = 2 /\ resets = 1
    /\ flushInterval # 0 /\ untilTick < flushInterval
    /\ mainPc = "addFlush"

\* ------------------------------------------------------------------ C18
\* run gave up on a buildEvent error or on the error of an add-path delivery.
loopAborted ==
    /\ mainPc = "returned"
    /\ \/ err = "build"
       \/ err = "delivery" /\ \A i \in reqIdx : requests[i].src # "final"

\* C18: after the ingestion loop has aborted with an error from event
\* building or from an add-path delivery, no further delivery request is
\* issued.
C18_NoRequestAfterAbort ==
    [][ loopAborted => Len(requests') = Len(requests) ]_vars

\* ------------------------------------------------------------------ C19
\* C19: while one event is built the line is parsed into its JSON value at
\* most once, however many fields are query-driven.
C19_ParsedAtMostOnce ==
    built # NotBuilt => built.parses <= 1

\* ------------------------------------------------------------------ C20
claimedOrder == <<"id", "subject", "dataVersion", "eventTime", "eventType">>

\* The resolution of field f fails on job j.
resolutionFails(f, j) ==
    \/ j.opt[f] = "jpbad"
    \/ j.opt[f] = "jp" /\ (~j.validJSON \/ f \in j.searchFails)
    \/ f = "eventTime" /\ j.timeVal = <<"x">>

failing(j) == {i \in 1..Len(claimedOrder) : resolutionFails(claimedOrder[i], j)}
firstFailing(j) == CHOOSE i \in failing(j) : \A k \in failing(j) : i <= k

\* C20: buildEvent resolves id, subject, dataVersion, eventTime, eventType
\* in this order and returns the error of the first of them that fails,
\* resolving none after it; then there is no event, run returns the error
\* and nothing is appended to the pending batch.
C20_FirstErrorInOrder ==
    built # NotBuilt =>
        IF failing(job) = {}
          THEN /\ built.err = nilErr
               /\ built.resolved = claimedOrder
               /\ built.ev # nilEvent
          ELSE /\ built.err.field = claimedOrder[firstFailing(job)]
               /\ built.resolved = SubSeq(claimedOrder, 1, firstFailing(job))
               /\ built.ev = nilEvent
               /\ mainPc = "returned" /\ err = "build"
               /\ cache = <<>>

\* eventTime and eventType both fail: the error is eventTime's, eventType
\* was not resolved.
C20_Witness ==
    /\ built # NotBuilt
    /\ failing(job) = {4, 5}
    /\ built.err = [kind |-> "syntax", field |-> "eventTime"]
    /\ Len(built.resolved) = 4
    /\ mainPc = "returned"

\* ------------------------------------------------------------------ C21
\* s is an optional sign followed by one or more decimal digits.
spellsInteger(s) ==
    LET body == IF s # <<>> /\ s[1] \in {"+", "-"} THEN SubSeq(s, 2, Len(s)) ELSE s
    IN  body # <<>> /\ \A i \in 1..Len(body) : isDigit(body[i])

RECURSIVE pow10(_)
pow10(k) == IF k = 0 THEN 1 ELSE 10 * pow10(k - 1)

\* The number spelled by the digits lo..hi of s, read by place value.
RECURSIVE placeValue(_, _, _)
placeValue(s, lo, hi) ==
    IF lo > hi THEN 0
    ELSE digitVal(s[lo]) * pow10(hi - lo) + placeValue(s, lo + 1, hi)

\* The integer m that s spells, as floor(m / 1000) and m mod 1000.
spelled(s) ==
    LET neg  == s[1] = "-"
        from == IF s[1] \in {"+", "-"} THEN 2 ELSE 1
        cut  == IF Len(s) - 3 < from - 1 THEN from - 1 ELSE Len(s) - 3
        th   == placeValue(s, from, cut)
        un   == placeValue(s, cut + 1, Len(s))
    IN  IF ~neg THEN [secs |-> th, millis |-> un]
        ELSE IF un = 0 THEN [secs |-> -th, millis |-> 0]
        ELSE [secs |-> -th - 1, millis |-> 1000 - un]

\* s spells an integer of at most 18 digits, or one past either end of
\* int64: the integers tried that fit, and those that do not fit, int64.
fitsInt64(s) == spellsInteger(s) /\ Len(s) < 19

isLeap(y) == y % 4 = 0 /\ (y % 100 # 0 \/ y % 400 = 0)

monthDays(y, m) ==
    IF m = 2 THEN (IF isLeap(y) THEN 29 ELSE 28)
    ELSE IF m \in {4, 6, 9, 11} THEN 30 ELSE 31

RECURSIVE daysBeforeMonth(_, _)
daysBeforeMonth(y, m) ==
    IF m = 1 THEN 0 ELSE daysBeforeMonth(y, m - 1) + monthDays(y, m - 1)

leapsBefore(y) == (y - 1) \div 4 - (y - 1) \div 100 + (y - 1) \div 400

\* The instant an RFC 3339 UTC timestamp denotes, as whole seconds since
\* 1970-01-01T00:00:00Z and milliseconds; the timestamp is well-formed and
\* has no digit below the millisecond.
denotes(ts, at) ==
    /\ ts.month \in 1..12
    /\ ts.day \in 1..monthDays(ts.year, ts.month)
    /\ ts.hour \in 0..23 /\ ts.minute \in 0..59 /\ ts.second \in 0..59
    /\ Len(ts.frac) <= 3
    /\ ts.frac # <<>> => ts.frac[Len(ts.frac)] # "0"
    /\ at.secs = ((365 * (ts.year - 1970) + leapsBefore(ts.year) - leapsBefore(1970)
                    + daysBeforeMonth(ts.year, ts.month) + ts.day - 1) * 86400
                  + ts.hour * 3600 + ts.minute * 60 + ts.second)
    /\ at.millis = placeValue(ts.frac, 1, Len(ts.frac)) * pow10(3 - Len(ts.frac))

builtTime == (CHOOSE e \in built.ev : TRUE).eventTime

theTestTime == <<"1","6","0","8","3","0","9","8","3","5","0","0","0">>

\* C21: a resolved eventTime string other than "now" that is an integer m
\* gives the timestamp of the instant m milliseconds after the epoch in
\* UTC, for negative m too, and 1608309835000 gives 2020-12-18T16:43:55Z;
\* a string that is not an integer makes buildEvent fail.
C21_EpochMilliseconds ==
    (built # NotBuilt /\ job.timeVal # nowString) =>
        IF fitsInt64(job.timeVal)
          THEN /\ built.err = nilErr
               /\ denotes(builtTime, spelled(job.timeVal))
               /\ job.timeVal = theTestTime =>
                      builtTime = [year |-> 2020, month |-> 12, day |-> 18,
                                   hour |-> 16, minute |-> 43, second |-> 55,
                                   frac |-> <<>>]
          ELSE /\ built.err.field = "eventTime"
               /\ built.err.kind \in {"syntax", "range"}
               /\ built.ev = nilEvent

\* -1701 ms: 1969-12-31T23:59:58.299Z.
C21_Witness ==
    /\ job.timeVal = <<"-", "1", "7", "0", "1">>
    /\ built.err = nilErr
    /\ builtTime = [year |-> 1969, month |-> 12, day |-> 31,
                    hour |-> 23, minute |-> 59, second |-> 58,
                    frac |-> <<"2", "9", "9">>]

\* ------------------------------------------------------------------ C22
\* The ingestion loop is inside addEvent (its flushIfNeeded included); the
\* ticker goroutine is inside flushIfNeeded.
inAddEvent == mainPc \in {"addEvent", "addFlush", "addInflight"}
inTickFlush == tickPc \in {"flush", "inflight"}

\* The operation that holds the lock is executing its delivery.
holderExecuting ==
    /\ mutex = "add" => mainPc = "addInflight"
    /\ mutex = "final" => mainPc = "finalInflight"
    /\ mutex = "tick" => tickPc = "inflight"

\* C22: the publisher lock is held only by an operation that is executing,
\* so it is free whenever none is, and, every delivery call returning, an
\* addEvent and a tick flush that contend for it both complete (unless the
\* process exits first).
C22_LockNeverLeaked ==
    /\ [](exitCode = Running => holderExecuting)
    /\ [](exitCode = Running /\ ~inAddEvent /\ mainPc # "finalInflight"
             /\ tickPc # "inflight" => mutex = Free)
    /\ inAddEvent ~> (~inAddEvent \/ exitCode # Running)
    /\ inTickFlush ~> (~inTickFlush \/ exitCode # Running)

\* addEvent has appended and waits for the lock that the tick's flush
\* holds while it delivers.
C22_Witness ==
    /\ exitCode = Running
    /\ mainPc = "addFlush"
    /\ tickPc = "inflight"
    /\ mutex = "tick"

\* ------------------------------------------------------------------ C23
\* The signal listener takes a step.
signalStep == sigPc' # sigPc

\* The ingestion loop executes `if done`: addEvent returned no error.
readsDone == mainPc = "afterAdd" /\ mainPc' # "afterAdd" /\ err = "nil"

\* C23: the termination flag is written by the signal listener and read by
\* the ingestion loop only while the accessing task holds doneMutex, and no
\* step of the signal listener touches the pending batch.
C23_DoneAccessedUnderLock ==
    [][ /\ done' # done => doneMutex = "signal"
        /\ readsDone => doneMutex = "main"
        /\ signalStep => cache' = cache ]_vars
====
